---- MODULE Spec2Model ----
(***************************************************************************)
(* A model of the React server-side rendering service: the registry load   *)
(* at startup and the handlers of POST /render, GET /components and        *)
(* GET /health.  The POST /render handler contains no await, so one call   *)
(* of it is one atomic step; the stages it went through are kept in a      *)
(* trace so that their order can be stated.  Two further specifications    *)
(* share the module: TurnSpec runs the handlers of several requests on the *)
(* event loop stage by stage, and ClientSpec is the App component of the   *)
(* editor page with the requests it has in flight.                         *)
(***************************************************************************)
EXTENDS Integers, Sequences, FiniteSets, TLC

VARIABLES
  phase,                 \* "boot", "listening" or "exited"
  exitCode,              \* the codes process.exit was called with
  artifact,              \* what require() of the components package gives
  nodeEnv,               \* process.env.NODE_ENV
  predefinedComponents,  \* the registry object
  cssPrimary, cssAlt,    \* the two stylesheet files on disk
  last,                  \* the request handled last and what its handler did
  cssSeen,               \* the stylesheet files as the last handler call read them
  memo,                  \* an earlier successful render, kept for comparison
  arrived,               \* the bodies of the requests that have arrived
  pos,                   \* how many stages of its handler each of them has run
  running,               \* the request whose handler holds the thread, 0 for none
  events,                \* the stages run so far, in order, each with its request
  codeText,              \* App state `code`: the text in the editor
  renderedHTML,          \* App state: the document shown in the preview
  loading,               \* App state: a render request is awaited
  error,                 \* App state: the message of the error panel
  availableComponents,   \* App state: the names listed under the editor
  pending,               \* the requests the client has sent and not yet seen settle
  cleared                \* Clear was pressed and no render was started since

turnVars == <<arrived, pos, running, events>>

clientVars == <<codeText, renderedHTML, loading, error, availableComponents, pending, cleared>>

vars == <<phase, exitCode, artifact, nodeEnv, predefinedComponents, cssPrimary,
          cssAlt, last, cssSeen, memo>>

(* ------------------------------- bounds -------------------------------- *)

\* The number of requests that are in flight together.
MaxInFlight == 2

(* ------------------------- JavaScript values --------------------------- *)

\* A JavaScript value: its kind t and a printable content v.
Undef == [t |-> "undefined", v |-> ""]
Null == [t |-> "null", v |-> ""]
Bool(b) == [t |-> "boolean", v |-> b]
Num(n) == [t |-> "number", v |-> n]
Str(s) == [t |-> "string", v |-> s]
Obj(o) == [t |-> "object", v |-> o]
Fn(f) == [t |-> "function", v |-> f]

\* ToBoolean(x) = false.
Falsy(x) ==
  \/ x.t \in {"undefined", "null"}
  \/ x.t = "boolean" /\ x.v = "false"
  \/ x.t = "number" /\ x.v \in {"0", "NaN"}
  \/ x.t = "string" /\ x.v = ""

\* The typeof operator: null is an "object".
TypeOf(x) == IF x.t = "null" THEN "object" ELSE x.t

(* ------------------------ values that are thrown ----------------------- *)

\* An Error instance of class cls with message msg; it carries a stack.
ErrorObj(cls, msg) == [k |-> "error", cls |-> cls, msg |-> msg]
\* A thrown string, thrown null, and a thrown object without a prototype.
ThrownString(s) == [k |-> "string", cls |-> "", msg |-> s]
ThrownNull == [k |-> "null", cls |-> "", msg |-> ""]
ThrownBare == [k |-> "bare", cls |-> "", msg |-> ""]
\* A thrown plain object whose message property is the number n: {message: n}.
ThrownObject(n) == [k |-> "object", cls |-> "", msg |-> n]

NoThrow == [k |-> "none", cls |-> "", msg |-> ""]

\* error?.message
MessageOf(e) ==
  CASE e.k = "error" -> Str(e.msg)
    [] e.k = "object" -> Num(e.msg)
    [] OTHER -> Undef

\* error?.stack: only Error instances have one; it names the error it is of.
StackOf(e) == IF e.k = "error" THEN Str(e.msg) ELSE Undef

\* String(error) completes for everything but an object that has neither
\* toString nor valueOf (Object.create(null)), for which it throws TypeError.
StringThrows(e) == e.k = "bare"

\* String(error) where it completes.  It is only reached with a falsy message.
StringOf(e) ==
  CASE e.k = "error" -> Str(e.cls)
    [] e.k = "string" -> Str(e.msg)
    [] e.k = "null" -> Str("null")
    [] OTHER -> Str("[object Object]")

(* --------------------------- submitted source -------------------------- *)

\* The reserved module name the resolver answers with the registry.
RegistryName == "@react-renderer/components"

\* The statements a submission is made of.
Blank == [op |-> "blank", key |-> "", val |-> Undef, err |-> NoThrow, from |-> ""]
DeclareAs(name, x) == [op |-> "declare", key |-> name, val |-> x, err |-> NoThrow, from |-> ""]
Declare(x) == DeclareAs("MyComponent", x)
SetReg(k, x) == [op |-> "setreg", key |-> k, val |-> x, err |-> NoThrow, from |-> ""]
DelReg(k) == [op |-> "delreg", key |-> k, val |-> Undef, err |-> NoThrow, from |-> ""]
ThrowStmt(e) == [op |-> "throw", key |-> "", val |-> Undef, err |-> e, from |-> ""]
Unclosed == [op |-> "unclosed", key |-> "", val |-> Undef, err |-> NoThrow, from |-> ""]
\* require('@react-renderer/components')[k] = MyComponent
PublishAs(k) == [op |-> "publish", key |-> k, val |-> Undef, err |-> NoThrow, from |-> ""]
\* const t = props.title; function MyComponent(){return <h1>{t}</h1>}
CloseOverTitle == [op |-> "close", key |-> "MyComponent", val |-> Undef, err |-> NoThrow, from |-> ""]
\* const MyComponent = require(name)[member]
BindRequired(name, member) ==
  [op |-> "bindreq", key |-> "MyComponent", val |-> Str(member), err |-> NoThrow,
   from |-> name]
\* module.exports = MyComponent;
Trailer == [op |-> "export", key |-> "MyComponent", val |-> Undef, err |-> NoThrow, from |-> ""]

\* The statements of each sample source text.
Lex(text) ==
  CASE text = "" -> << >>
    [] text = "   " -> <<Blank>>
    [] text = "function MyComponent(){return <p>ok</p>}" -> <<Declare(Fn("static"))>>
    [] text = "function MyComponent(props){return <h1>{props.title}</h1>}" ->
         <<Declare(Fn("echoTitle"))>>
    [] text = "import {Button} from '@react-renderer/components'; function MyComponent(){return <Button/>}" ->
         <<Declare(Fn("useButton"))>>
    [] text = "function MyComponent(){throw new Error('render failed')}" ->
         <<Declare(Fn("throws"))>>
    [] text = "function MyComponent(){return <p>ok</p>" -> <<Unclosed>>
    [] text = "function Other(){return <p>ok</p>}" -> <<DeclareAs("Other", Fn("static"))>>
    [] text = "const MyComponent = React.memo(() => <p>ok</p>)" -> <<Declare(Obj("memo"))>>
    [] text = "const MyComponent = {}" -> <<Declare(Obj("{}"))>>
    [] text = "const MyComponent = null" -> <<Declare(Null)>>
    [] text = "var MyComponent" -> <<Declare(Undef)>>
    [] text = "const MyComponent = false" -> <<Declare(Bool("false"))>>
    [] text = "const MyComponent = true" -> <<Declare(Bool("true"))>>
    [] text = "const MyComponent = 0" -> <<Declare(Num("0"))>>
    [] text = "const MyComponent = 42" -> <<Declare(Num("42"))>>
    [] text = "const MyComponent = ''" -> <<Declare(Str(""))>>
    [] text = "const MyComponent = 'div'" -> <<Declare(Str("div"))>>
    [] text = "throw new Error('boom')" -> <<ThrowStmt(ErrorObj("Error", "boom"))>>
    [] text = "throw new Error('')" -> <<ThrowStmt(ErrorObj("Error", ""))>>
    [] text = "throw 'plain'" -> <<ThrowStmt(ThrownString("plain"))>>
    [] text = "throw null" -> <<ThrowStmt(ThrownNull)>>
    [] text = "throw Object.create(null)" -> <<ThrowStmt(ThrownBare)>>
    [] text = "throw {message: 42}" -> <<ThrowStmt(ThrownObject("42"))>>
    [] text = "require('@react-renderer/components').Button = () => <i>evil</i>; function MyComponent(){return <p>ok</p>}" ->
         <<SetReg("Button", Fn("Evil")), Declare(Fn("static"))>>
    [] text = "delete require('@react-renderer/components').Button; function MyComponent(){return <p>ok</p>}" ->
         <<DelReg("Button"), Declare(Fn("static"))>>
    [] text = "function MyComponent(){return <p>ok</p>}; require('@react-renderer/components').Button = MyComponent" ->
         <<Declare(Fn("static")), PublishAs("Button")>>
    [] text = "const t = props.title; function MyComponent(){return <h1>{t}</h1>}" ->
         <<CloseOverTitle>>
    [] text = "const MyComponent = require('@react-renderer/components').Button" ->
         <<BindRequired(RegistryName, "Button")>>
    [] text = "const MyComponent = require('react').Fragment" -> <<BindRequired("react", "Fragment")>>
    [] text = "const MyComponent = require('nope').X" -> <<BindRequired("nope", "X")>>
    [] OTHER -> <<Unclosed>>

\* The source texts that are submitted.
SourceTexts ==
  { "", "   ",
    "function MyComponent(){return <p>ok</p>}",
    "function MyComponent(props){return <h1>{props.title}</h1>}",
    "import {Button} from '@react-renderer/components'; function MyComponent(){return <Button/>}",
    "function MyComponent(){throw new Error('render failed')}",
    "function MyComponent(){return <p>ok</p>",
    "function Other(){return <p>ok</p>}",
    "const MyComponent = React.memo(() => <p>ok</p>)",
    "const MyComponent = {}",
    "const MyComponent = null",
    "var MyComponent",
    "const MyComponent = false",
    "const MyComponent = true",
    "const MyComponent = 0",
    "const MyComponent = 42",
    "const MyComponent = ''",
    "const MyComponent = 'div'",
    "throw new Error('boom')",
    "throw new Error('')",
    "throw 'plain'",
    "throw null",
    "throw Object.create(null)",
    "throw {message: 42}",
    "require('@react-renderer/components').Button = () => <i>evil</i>; function MyComponent(){return <p>ok</p>}",
    "delete require('@react-renderer/components').Button; function MyComponent(){return <p>ok</p>}",
    "function MyComponent(){return <p>ok</p>}; require('@react-renderer/components').Button = MyComponent",
    "const t = props.title; function MyComponent(){return <h1>{t}</h1>}",
    "const MyComponent = require('@react-renderer/components').Button",
    "const MyComponent = require('react').Fragment",
    "const MyComponent = require('nope').X" }

\* The values the `code` field of a body takes: strings and non-strings.
CodeValues ==
  {Str(s) : s \in SourceTexts} \cup
  {Undef, Null, Num("0"), Num("42"), Bool("false"), Bool("true"), Obj("{}")}

\* The values the `props` field takes; Undef is an omitted field.
PropsValues == {Undef, Obj("{}"), Obj("title:Hi")}

\* A request body; present = FALSE is a request without a parsed body.
NoBody == [present |-> FALSE, code |-> Undef, props |-> Undef]

Bodies ==
  {[present |-> TRUE, code |-> c, props |-> Undef] : c \in CodeValues}
  \cup {[present |-> TRUE, code |-> Str("function MyComponent(props){return <h1>{props.title}</h1>}"),
         props |-> p] : p \in PropsValues}
  \cup {[present |-> TRUE, code |-> Str("const t = props.title; function MyComponent(){return <h1>{t}</h1>}"),
         props |-> p] : p \in PropsValues}
  \cup {[present |-> TRUE, code |-> Str("   "), props |-> Obj("{}")],
        [present |-> TRUE, code |-> Num("42"), props |-> Obj("title:Hi")],
        NoBody}

\* A source text that is blank: empty after trimming.
IsBlankText(x) == x.t = "string" /\ \A i \in 1..Len(Lex(x.v)) : Lex(x.v)[i] = Blank

(* ------------------------------ registry ------------------------------- *)

\* An object's own enumerable properties in insertion order: a sequence of
\* [name, value] entries with distinct names.
Entry(n, x) == [name |-> n, value |-> x]

Keys(o) == [i \in 1..Len(o) |-> o[i].name]

HasKey(o, n) == \E i \in 1..Len(o) : o[i].name = n

\* o[n], undefined when n is no key of o.
Get(o, n) ==
  IF HasKey(o, n) THEN o[CHOOSE i \in 1..Len(o) : o[i].name = n].value ELSE Undef

\* o[n] = x: an existing key keeps its place, a new key goes last.
Put(o, n, x) ==
  IF HasKey(o, n)
  THEN [i \in 1..Len(o) |-> IF o[i].name = n THEN Entry(n, x) ELSE o[i]]
  ELSE Append(o, Entry(n, x))

\* delete o[n]
Delete(o, n) == SelectSeq(o, LAMBDA e : e.name # n)

RECURSIVE Spread(_, _)
\* {...a, ...b}
Spread(a, b) ==
  IF b = << >> THEN a ELSE Spread(Put(a, Head(b).name, Head(b).value), Tail(b))

\* What require('@react-renderer/components') gives at startup: it throws
\* (loads = FALSE), or it gives a module object with the named exports `named`
\* and, when hasDefault, a default export whose properties are `dflt`.
ButtonImpl == Fn("ButtonImpl")
CardImpl == Fn("CardImpl")
DefaultContainer == Obj("default export")

ArtifactMissing == [loads |-> FALSE, hasDefault |-> FALSE, named |-> << >>, dflt |-> << >>]
ArtifactCjs ==
  [loads |-> TRUE, hasDefault |-> FALSE,
   named |-> <<Entry("Button", ButtonImpl), Entry("Card", CardImpl)>>,
   dflt |-> << >>]
ArtifactEsm ==
  [loads |-> TRUE, hasDefault |-> TRUE,
   named |-> <<Entry("__esModule", Bool("true")), Entry("Button", ButtonImpl),
               Entry("default", DefaultContainer)>>,
   dflt |-> <<Entry("Card", CardImpl), Entry("Button", Fn("DefaultButton"))>>]

Artifacts == {ArtifactMissing, ArtifactCjs, ArtifactEsm}

\* The registry the loader builds from a loaded module object.
LoadRegistry(mod) ==
  Delete(Spread(IF mod.hasDefault THEN mod.dflt ELSE << >>, mod.named), "__esModule")

(* --------------------------- pipeline stages --------------------------- *)

\* `${code}\nmodule.exports = MyComponent;`
UserSource(text) == Lex(text) \o <<Trailer>>

\* Babel.transformSync: throws a SyntaxError for text it cannot parse and
\* otherwise gives the executable statements, layout dropped.
BabelSyntaxError == ErrorObj("SyntaxError", "user-code.jsx: Unterminated JSX contents")

Transform(source) ==
  IF \E i \in 1..Len(source) : source[i].op = "unclosed"
  THEN [threw |-> TRUE, err |-> BabelSyntaxError, code |-> << >>]
  ELSE [threw |-> FALSE, err |-> NoThrow,
        code |-> SelectSeq(source, LAMBDA st : st.op # "blank")]

\* context.require(moduleName) for the reserved name: the registry object
\* itself, so a write through it is a write to the registry.
Resolve(reg) == reg

\* What the host's require gives the server process: the modules installed
\* beside it, and an error for a name that resolves to nothing.
ReactModule == <<Entry("Fragment", Fn("Fragment"))>>

ModuleNotFound(name) ==
  ErrorObj("Error", IF name = "nope" THEN "Cannot find module 'nope'"
                    ELSE "Cannot find module")

HostRequire(name) ==
  IF name = "react"
  THEN [threw |-> FALSE, err |-> NoThrow, mod |-> ReactModule]
  ELSE [threw |-> TRUE, err |-> ModuleNotFound(name), mod |-> << >>]

\* A resolver that answers every name with the registry.
ContextRequireRegistryOnly(name, reg) ==
  [threw |-> FALSE, err |-> NoThrow, mod |-> Resolve(reg)]

\* context.require(moduleName)
ContextRequire(name, reg) ==
  IF name = RegistryName
  THEN [threw |-> FALSE, err |-> NoThrow, mod |-> Resolve(reg)]
  ELSE HostRequire(name)

ReferenceError == ErrorObj("ReferenceError", "MyComponent is not defined")

PropsTypeError ==
  ErrorObj("TypeError", "Cannot read properties of undefined (reading 'title')")

\* props.title as rendered text.
TitleOf(props) == IF props = Obj("title:Hi") THEN <<"Hi">> ELSE << >>

\* The component a declaration makes that closes over the title read from
\* the context's props.
Closure(props) == IF TitleOf(props) = <<"Hi">> THEN Fn("shows:Hi") ELSE Fn("shows:")

\* The state of one evaluation: whether MyComponent is declared and its
\* value, the context's props binding, the module record's export slot, the
\* registry, what was thrown.
EvalStart(reg, props) ==
  [declared |-> FALSE, bound |-> Undef, props |-> props, exports |-> Obj("{}"),
   reg |-> reg, thrown |-> NoThrow]

\* An evaluation in which reading an undeclared MyComponent gives undefined
\* instead of throwing.
StepLenient(st, stmt) ==
  CASE stmt.op = "declare" ->
         IF stmt.key = "MyComponent"
         THEN [st EXCEPT !.declared = TRUE, !.bound = stmt.val]
         ELSE st
    [] stmt.op = "setreg" -> [st EXCEPT !.reg = Put(Resolve(st.reg), stmt.key, stmt.val)]
    [] stmt.op = "delreg" -> [st EXCEPT !.reg = Delete(Resolve(st.reg), stmt.key)]
    [] stmt.op = "publish" -> [st EXCEPT !.reg = Put(Resolve(st.reg), stmt.key, st.bound)]
    [] stmt.op = "close" ->
         IF st.props \in {Undef, Null}
         THEN [st EXCEPT !.thrown = PropsTypeError]
         ELSE [st EXCEPT !.declared = TRUE, !.bound = Closure(st.props)]
    [] stmt.op = "bindreq" ->
         IF ContextRequire(stmt.from, st.reg).threw
         THEN [st EXCEPT !.thrown = ContextRequire(stmt.from, st.reg).err]
         ELSE [st EXCEPT !.declared = TRUE,
                         !.bound = Get(ContextRequire(stmt.from, st.reg).mod, stmt.val.v)]
    [] stmt.op = "throw" -> [st EXCEPT !.thrown = stmt.err]
    [] stmt.op = "export" -> [st EXCEPT !.exports = st.bound]
    [] OTHER -> st

\* One statement of the transformed code run in state st.
Step(st, stmt) ==
  CASE stmt.op = "declare" ->
         IF stmt.key = "MyComponent"
         THEN [st EXCEPT !.declared = TRUE, !.bound = stmt.val]
         ELSE st
    [] stmt.op = "setreg" -> [st EXCEPT !.reg = Put(Resolve(st.reg), stmt.key, stmt.val)]
    [] stmt.op = "delreg" -> [st EXCEPT !.reg = Delete(Resolve(st.reg), stmt.key)]
    [] stmt.op = "publish" -> [st EXCEPT !.reg = Put(Resolve(st.reg), stmt.key, st.bound)]
    [] stmt.op = "close" ->
         IF st.props \in {Undef, Null}
         THEN [st EXCEPT !.thrown = PropsTypeError]
         ELSE [st EXCEPT !.declared = TRUE, !.bound = Closure(st.props)]
    [] stmt.op = "bindreq" ->
         IF ContextRequire(stmt.from, st.reg).threw
         THEN [st EXCEPT !.thrown = ContextRequire(stmt.from, st.reg).err]
         ELSE [st EXCEPT !.declared = TRUE,
                         !.bound = Get(ContextRequire(stmt.from, st.reg).mod, stmt.val.v)]
    [] stmt.op = "throw" -> [st EXCEPT !.thrown = stmt.err]
    [] stmt.op = "export" ->
         IF st.declared
         THEN [st EXCEPT !.exports = st.bound]
         ELSE [st EXCEPT !.thrown = ReferenceError]
    [] OTHER -> st

RECURSIVE Run(_, _)
\* execFn(moduleObj, ...contextValues): the statements in order, up to the
\* first one that throws.
Run(code, st) ==
  IF code = << >> \/ st.thrown # NoThrow
  THEN st
  ELSE Run(Tail(code), Step(st, Head(code)))

Evaluate(code, reg, props) == Run(code, EvalStart(reg, props))

NoComponentError ==
  ErrorObj("Error", "No valid component factory returned from user code")

\* A factory test without the !ComponentFactory disjunct.
RejectsFactoryTypeOnly(cf) == TypeOf(cf) # "function" /\ TypeOf(cf) # "object"

\* The test the handler makes on moduleObj.exports before it throws
\* NoComponentError.
RejectsFactory(cf) ==
  Falsy(cf) \/ (TypeOf(cf) # "function" /\ TypeOf(cf) # "object")

InvalidElementError == ErrorObj("Error", "Element type is invalid")

\* The markup a registry constructor renders to.
RenderConstructor(c) ==
  CASE c = ButtonImpl -> [threw |-> FALSE, err |-> NoThrow, html |-> <<"<button>", "</button>">>]
    [] c = CardImpl -> [threw |-> FALSE, err |-> NoThrow, html |-> <<"<div>", "</div>">>]
    [] c = Fn("DefaultButton") ->
         [threw |-> FALSE, err |-> NoThrow, html |-> <<"<button>", "default", "</button>">>]
    [] c = Fn("Evil") -> [threw |-> FALSE, err |-> NoThrow, html |-> <<"<i>", "evil", "</i>">>]
    [] c = Fn("static") -> [threw |-> FALSE, err |-> NoThrow, html |-> <<"<p>", "ok", "</p>">>]
    [] OTHER -> [threw |-> TRUE, err |-> InvalidElementError, html |-> << >>]

\* ReactDOMServer.renderToString(React.createElement(cf, props)), with the
\* registry as the evaluated code left it.
Render(cf, props, reg) ==
  CASE cf = Fn("static") -> [threw |-> FALSE, err |-> NoThrow, html |-> <<"<p>", "ok", "</p>">>]
    [] cf = Fn("echoTitle") ->
         [threw |-> FALSE, err |-> NoThrow, html |-> <<"<h1>">> \o TitleOf(props) \o <<"</h1>">>]
    [] cf = Fn("shows:Hi") ->
         [threw |-> FALSE, err |-> NoThrow, html |-> <<"<h1>", "Hi", "</h1>">>]
    [] cf = Fn("shows:") -> [threw |-> FALSE, err |-> NoThrow, html |-> <<"<h1>", "</h1>">>]
    [] cf = Fn("Fragment") -> [threw |-> FALSE, err |-> NoThrow, html |-> << >>]
    [] cf \in {ButtonImpl, CardImpl, Fn("DefaultButton"), Fn("Evil")} -> RenderConstructor(cf)
    [] cf = Fn("useButton") -> RenderConstructor(Get(Resolve(reg), "Button"))
    [] cf = Fn("throws") ->
         [threw |-> TRUE, err |-> ErrorObj("Error", "render failed"), html |-> << >>]
    [] cf = Obj("memo") -> [threw |-> FALSE, err |-> NoThrow, html |-> <<"<p>", "ok", "</p>">>]
    [] OTHER -> [threw |-> TRUE, err |-> InvalidElementError, html |-> << >>]

\* A stylesheet file: unreadable, or readable with a text.
NoFile == [readable |-> FALSE, text |-> ""]
File(t) == [readable |-> TRUE, text |-> t]

\* A stylesheet read that does not try the alternative path.
ReadCssNoFallback(primary, alt) == IF primary.readable THEN primary.text ELSE ""

\* cssContent after the nested try/catch around the two readFileSync calls.
ReadCss(primary, alt) ==
  IF primary.readable THEN primary.text
  ELSE IF alt.readable THEN alt.text
  ELSE ""

DocumentHead ==
  <<"<!DOCTYPE html>", "<html lang=\"en\">", "<head>", "<meta charset=\"UTF-8\">",
    "<meta name=\"viewport\" content=\"width=device-width, initial-scale=1.0\">",
    "<title>React Component</title>">>

\* A document with the fragment placed after the container element.
AssembleOutside(css, html) ==
  DocumentHead \o <<"<style>", css, "</style>", "</head>", "<body>", "<div id=\"app\">">>
  \o <<"</div>">> \o html \o <<"</body>", "</html>">>

\* completeHTML
Assemble(css, html) ==
  DocumentHead \o <<"<style>", css, "</style>", "</head>", "<body>", "<div id=\"app\">">>
  \o html \o <<"</div>", "</body>", "</html>">>

(* ------------------------- POST /render handler ------------------------ *)

\* A destructuring without the default for props.
PropsOfNoDefault(body) == IF body.present THEN body.props ELSE Undef

\* const { code, props = {} } = req.body ?? {}
CodeOf(body) == IF body.present THEN body.code ELSE Undef
PropsOf(body) == IF body.present /\ body.props # Undef THEN body.props ELSE Obj("{}")

\* A validation that tests only !code.
NoCodeFalsyOnly(code) == Falsy(code)

\* !code || typeof code !== 'string'
NoCode(code) == Falsy(code) \/ TypeOf(code) # "string"

\* A catch block that reports a fixed text instead of the caught message.
ErrorTextGeneric(e) == Str("Rendering error")

\* error?.message || String(error): whether evaluating it throws, and its value.
ErrorTextThrows(e) == Falsy(MessageOf(e)) /\ StringThrows(e)

ErrorText(e) == IF Falsy(MessageOf(e)) THEN StringOf(e) ELSE MessageOf(e)

\* A stack included in every mode but production.
StackFieldNotProduction(e, env) == IF env # "production" THEN StackOf(e) ELSE Undef

\* process.env.NODE_ENV === 'development' ? error?.stack : undefined
StackField(e, env) == IF env = "development" THEN StackOf(e) ELSE Undef

\* The JSON body of the failure response; a key whose value is undefined is
\* not serialized.
FailureBody(e, env) ==
  IF StackField(e, env) = Undef
  THEN [success |-> FALSE, error |-> ErrorText(e)]
  ELSE [success |-> FALSE, error |-> ErrorText(e), stack |-> StackField(e, env)]

\* What one call of the handler did: the stages entered, the responses sent,
\* whether an exception left the handler, the value caught, the export slot
\* after evaluation, and the registry as the call left it.
Outcome(trace, sent, escaped, caught, exports, reg) ==
  [trace |-> trace, sent |-> sent, escaped |-> escaped, caught |-> caught,
   exports |-> exports, reg |-> reg]

\* The catch block, entered with the value e after the stages in trace.
Catch(trace, e, exports, reg, env) ==
  IF ErrorTextThrows(e)
  THEN Outcome(trace \o <<"catch">>, << >>, TRUE, e, exports, reg)
  ELSE Outcome(trace \o <<"catch", "respond">>,
               <<[status |-> 400, body |-> FailureBody(e, env)]>>, FALSE, e, exports, reg)

SuccessBody(doc) ==
  [success |-> TRUE, html |-> doc,
   message |-> Str("Complete HTML document generated successfully")]

\* The stages after a successful evaluation.
AfterEvaluate(trace, ev, props, primary, alt, env) ==
  IF RejectsFactory(ev.exports)
  THEN Catch(trace \o <<"validateFactory">>, NoComponentError, ev.exports, ev.reg, env)
  ELSE LET r == Render(ev.exports, props, ev.reg) IN
    IF r.threw
    THEN Catch(trace \o <<"validateFactory", "render">>, r.err, ev.exports, ev.reg, env)
    ELSE Outcome(trace \o <<"validateFactory", "render", "assemble", "respond">>,
                 <<[status |-> 200,
                    body |-> SuccessBody(Assemble(ReadCss(primary, alt), r.html))]>>,
                 FALSE, NoThrow, ev.exports, ev.reg)

\* The stages after a successful transform.
AfterTransform(trace, code, props, reg, primary, alt, env) ==
  LET ev == Evaluate(code, reg, props) IN
    IF ev.thrown # NoThrow
    THEN Catch(trace \o <<"evaluate">>, ev.thrown, ev.exports, ev.reg, env)
    ELSE AfterEvaluate(trace \o <<"evaluate">>, ev, props, primary, alt, env)

\* One call of the POST /render handler.
RenderHandler(body, reg, primary, alt, env) ==
  IF NoCode(CodeOf(body))
  THEN Outcome(<<"validate", "respond">>,
               <<[status |-> 400,
                  body |-> [success |-> FALSE, error |-> Str("No code provided")]]>>,
               FALSE, NoThrow, Undef, reg)
  ELSE LET t == Transform(UserSource(CodeOf(body).v)) IN
    IF t.threw
    THEN Catch(<<"validate", "transform">>, t.err, Undef, reg, env)
    ELSE IF t.code = << >>
    THEN Catch(<<"validate", "transform">>, ErrorObj("Error", "Babel transform failed"),
               Undef, reg, env)
    ELSE AfterTransform(<<"validate", "transform">>, t.code, PropsOf(body), reg,
                        primary, alt, env)

(* ------------------------------ the client ----------------------------- *)

\* The example source the editor starts with.
exampleCode ==
  "import { Accordion } from '@react-renderer/components'; function MyComponent() { return <Accordion/> }"

\* The texts the editor holds.
CodeTexts == {"", "   ", " function MyComponent(){return <p>ok</p>} ", exampleCode}

\* String.prototype.trim
Trim(text) ==
  CASE text = "   " -> ""
    [] text = " function MyComponent(){return <p>ok</p>} " ->
         "function MyComponent(){return <p>ok</p>}"
    [] OTHER -> text

\* A request the client has sent: GET /components or POST /render with its body.
ComponentsRequest == [url |-> "/components", code |-> "", props |-> "{}"]
RenderRequest(text) == [url |-> "/render", code |-> text, props |-> "{}"]

\* The App component as mounted: the initial hook states, and the request
\* for the component list that the mount effect has sent.
ClientAtMount ==
  /\ codeText = exampleCode
  /\ renderedHTML = ""
  /\ loading = FALSE
  /\ error = ""
  /\ availableComponents = << >>
  /\ pending = <<ComponentsRequest>>
  /\ cleared = FALSE

(* ------------------------------- actions ------------------------------- *)

NodeEnvs == {"production", "development", "test"}
PrimaryFiles == {NoFile, File("a{}")}
AltFiles == {NoFile, File("alt{}")}

\* The record of a handled request.
Handled(kind, body, out) == [kind |-> kind, body |-> body, out |-> out]

\* The submissions whose successful renders are kept for comparison with a
\* later render of the same submission.
Watched ==
  {[present |-> TRUE, code |-> Str(t), props |-> Undef] :
     t \in {"function MyComponent(){return <p>ok</p>}",
            "import {Button} from '@react-renderer/components'; function MyComponent(){return <Button/>}"}}

NoOutcome == Outcome(<< >>, << >>, FALSE, NoThrow, Undef, << >>)
NoMemo == [set |-> FALSE, body |-> NoBody, html |-> << >>]

\* The files a handler call found when it read the stylesheet; a call that
\* did not get to reading it found nothing.
NoRead == [primary |-> NoFile, alt |-> NoFile]
FilesRead(out, primary, alt) ==
  IF \E i \in 1..Len(out.trace) : out.trace[i] = "assemble"
  THEN [primary |-> primary, alt |-> alt]
  ELSE NoRead

\* The installations the server is started in: each build of the components
\* package in production mode, and the CommonJS build in every mode.
Installations ==
  {[artifact |-> a, nodeEnv |-> "production"] : a \in Artifacts}
  \cup {[artifact |-> ArtifactCjs, nodeEnv |-> e] : e \in NodeEnvs}

Init ==
  /\ phase = "boot"
  /\ exitCode = << >>
  /\ \E i \in Installations : artifact = i.artifact /\ nodeEnv = i.nodeEnv
  /\ predefinedComponents = << >>
  /\ cssPrimary \in PrimaryFiles
  /\ cssAlt \in AltFiles
  /\ last = Handled("none", NoBody, NoOutcome)
  /\ cssSeen = NoRead
  /\ memo = NoMemo
  /\ arrived = [r \in 1..MaxInFlight |-> NoBody]
  /\ pos = [r \in 1..MaxInFlight |-> 0]
  /\ running = 0
  /\ events = << >>
  /\ ClientAtMount

\* A top level that logs the load failure and goes on to listen.
StartupKeepsRunning ==
  /\ phase = "boot"
  /\ predefinedComponents' = IF artifact.loads THEN LoadRegistry(artifact) ELSE << >>
  /\ phase' = "listening"
  /\ UNCHANGED <<exitCode, artifact, nodeEnv, cssPrimary, cssAlt, last, cssSeen, memo>>

\* The module's top level: load the registry or exit, then listen.
Startup ==
  /\ phase = "boot"
  /\ IF artifact.loads
     THEN /\ predefinedComponents' = LoadRegistry(artifact)
          /\ phase' = "listening"
          /\ UNCHANGED exitCode
     ELSE /\ phase' = "exited"
          /\ exitCode' = <<1>>
          /\ UNCHANGED predefinedComponents
  /\ UNCHANGED <<artifact, nodeEnv, cssPrimary, cssAlt, last, cssSeen, memo>>

\* POST /render with the given body.
PostRender(body) ==
  /\ phase = "listening"
  /\ LET out == RenderHandler(body, predefinedComponents, cssPrimary, cssAlt, nodeEnv) IN
       /\ predefinedComponents' = out.reg
       /\ last' = Handled("render", body, out)
       /\ cssSeen' = FilesRead(out, cssPrimary, cssAlt)
       /\ \/ UNCHANGED memo
          \/ /\ ~memo.set
             /\ body \in Watched
             /\ Len(out.sent) = 1
             /\ out.sent[1].body.success
             /\ memo' = [set |-> TRUE, body |-> body, html |-> out.sent[1].body.html]
  /\ UNCHANGED <<phase, exitCode, artifact, nodeEnv, cssPrimary, cssAlt>>

\* A listing that leaves out the key added last.
ComponentsBodyShort(reg) ==
  [success |-> TRUE,
   components |-> [i \in 1..(Len(Keys(reg)) - 1) |-> [name |-> Keys(reg)[i]]],
   count |-> Len(Keys(reg)) - 1]

\* GET /components: Object.keys(predefinedComponents).map(name => ({ name }))
ComponentsBody(reg) ==
  [success |-> TRUE,
   components |-> [i \in 1..Len(Keys(reg)) |-> [name |-> Keys(reg)[i]]],
   count |-> Len(Keys(reg))]

GetComponents ==
  /\ phase = "listening"
  /\ last' = Handled("components", NoBody,
                     Outcome(<<"respond">>,
                             <<[status |-> 200, body |-> ComponentsBody(predefinedComponents)]>>,
                             FALSE, NoThrow, Undef, predefinedComponents))
  /\ cssSeen' = NoRead
  /\ UNCHANGED <<phase, exitCode, artifact, nodeEnv, predefinedComponents, cssPrimary,
                 cssAlt, memo>>

\* GET /health
HealthBody == [status |-> "OK", message |-> "React SSR service is running"]

GetHealth ==
  /\ phase = "listening"
  /\ last' = Handled("health", NoBody,
                     Outcome(<<"respond">>, <<[status |-> 200, body |-> HealthBody]>>,
                             FALSE, NoThrow, Undef, predefinedComponents))
  /\ cssSeen' = NoRead
  /\ UNCHANGED <<phase, exitCode, artifact, nodeEnv, predefinedComponents, cssPrimary,
                 cssAlt, memo>>

\* The stylesheet files are rebuilt, replaced or removed while the server runs.
FsChange ==
  /\ cssPrimary' \in PrimaryFiles
  /\ cssAlt' \in AltFiles
  /\ <<cssPrimary', cssAlt'>> # <<cssPrimary, cssAlt>>
  /\ UNCHANGED <<phase, exitCode, artifact, nodeEnv, predefinedComponents, last, cssSeen,
                 memo>>

Next ==
  /\ \/ Startup
     \/ \E body \in Bodies : PostRender(body)
     \/ GetComponents
     \/ GetHealth
     \/ FsChange
  /\ UNCHANGED <<turnVars, clientVars>>

Spec == Init /\ [][Next]_<<vars, turnVars, clientVars>>

(* ------------------- the handler on the event loop --------------------- *)

\* The handler is an async function whose body contains no await: every
\* call it makes (transformSync, the evaluated function, renderToString,
\* readFileSync, res.json) is synchronous.  A handler call therefore gives the
\* thread back only by returning; the runtime starts the handlers of the
\* arrived requests one at a time, in any order.

\* A handler that awaits the transform.
YieldsAfterTransform(stage) == stage = "transform"

\* Whether the handler hands the thread back after the given stage and
\* before it returns: it awaits nothing.
YieldsAfter(stage) == FALSE

\* The bodies of the requests in flight: one for each way a call can end.
TurnBodies ==
  {NoBody} \cup
  {[present |-> TRUE, code |-> Str(t), props |-> Undef] :
     t \in {"function MyComponent(){return <p>ok</p>}",
            "function MyComponent(){return <p>ok</p>",
            "throw new Error('boom')",
            "throw Object.create(null)",
            "const MyComponent = null",
            "function MyComponent(){throw new Error('render failed')}"}}

\* The stages the handler goes through for request r.
StageTrace(r) ==
  RenderHandler(arrived[r], predefinedComponents, cssPrimary, cssAlt, nodeEnv).trace

TurnInit ==
  /\ phase = "listening"
  /\ exitCode = << >>
  /\ artifact = ArtifactCjs
  /\ nodeEnv = "production"
  /\ predefinedComponents = LoadRegistry(ArtifactCjs)
  /\ cssPrimary = File("a{}")
  /\ cssAlt = NoFile
  /\ last = Handled("none", NoBody, NoOutcome)
  /\ cssSeen = NoRead
  /\ memo = NoMemo
  /\ arrived \in [1..MaxInFlight -> TurnBodies]
  /\ pos = [r \in 1..MaxInFlight |-> 0]
  /\ running = 0
  /\ events = << >>
  /\ ClientAtMount

\* The runtime gives the thread to the handler of request r: it calls the
\* handler, or resumes it where it yielded.
TakeTurn(r) ==
  /\ running = 0
  /\ pos[r] < Len(StageTrace(r))
  /\ running' = r
  /\ UNCHANGED <<arrived, pos, events, vars, clientVars>>

\* The handler that holds the thread runs its next stage; it gives the
\* thread back when it returns or yields.
RunStage(r) ==
  /\ running = r
  /\ LET stage == StageTrace(r)[pos[r] + 1] IN
       /\ events' = Append(events, [req |-> r, stage |-> stage])
       /\ pos' = [pos EXCEPT ![r] = pos[r] + 1]
       /\ running' = IF pos[r] + 1 = Len(StageTrace(r)) \/ YieldsAfter(stage) THEN 0 ELSE r
  /\ UNCHANGED <<arrived, vars, clientVars>>

TurnNext == \E r \in 1..MaxInFlight : TakeTurn(r) \/ RunStage(r)

TurnSpec == TurnInit /\ [][TurnNext]_<<vars, turnVars, clientVars>>

(* --------------------------- the client's steps ------------------------ *)

\* The hook states of App that the handlers read and set.
App == [code |-> codeText, renderedHTML |-> renderedHTML, loading |-> loading,
        error |-> error]

\* How an axios call settles: fulfilled with the body of a 2xx response, or
\* rejected with an error that carries the response of another status
\* (hasResponse), or no response at all.  An absent field is the empty text.
Settled(fulfilled, hasResponse, success, html, err, message) ==
  [fulfilled |-> fulfilled, hasResponse |-> hasResponse, success |-> success,
   html |-> html, error |-> err, message |-> message]

RenderOutcomes ==
  {Settled(TRUE, TRUE, TRUE, d, "", "") : d \in {"<!DOCTYPE html>A", "<!DOCTYPE html>B", ""}}
  \cup {Settled(TRUE, TRUE, FALSE, "", e, "") : e \in {"Element type is invalid", ""}}
  \cup {Settled(FALSE, TRUE, FALSE, "", "MyComponent is not defined",
                "Request failed with status code 400"),
         Settled(FALSE, TRUE, FALSE, "", "", "Request failed with status code 500"),
         Settled(FALSE, FALSE, FALSE, "", "", "Network Error"),
         Settled(FALSE, FALSE, FALSE, "", "", "")}

\* How GET /components settles: the names listed, or no list.
ComponentsOutcomes ==
  {[fulfilled |-> TRUE, success |-> TRUE, components |-> <<"Button", "Card">>],
   [fulfilled |-> TRUE, success |-> FALSE, components |-> << >>],
   [fulfilled |-> FALSE, success |-> FALSE, components |-> << >>]}

\* A button that is disabled only for blank code.
RenderDisabledBlankOnly(app) == Trim(app.code) = ""

\* disabled={loading || !code.trim()} of the Render Component button
RenderDisabled(app) == app.loading \/ Trim(app.code) = ""

\* handleRender up to its await: the App state it leaves and the requests
\* it has sent.
HandleRender(app) ==
  IF Trim(app.code) = ""
  THEN [app |-> [app EXCEPT !.error = "Please enter some React component code"],
        sent |-> << >>]
  ELSE [app |-> [app EXCEPT !.loading = TRUE, !.error = ""],
        sent |-> <<RenderRequest(Trim(app.code))>>]

\* A continuation that resets loading only when the request is fulfilled.
ResumeRenderNoFinally(app, o) ==
  IF o.fulfilled
  THEN IF o.success
       THEN [app EXCEPT !.renderedHTML = o.html, !.loading = FALSE]
       ELSE [app EXCEPT !.error = IF o.error # "" THEN o.error ELSE "Unknown error occurred",
                        !.loading = FALSE]
  ELSE [app EXCEPT !.error = IF o.hasResponse /\ o.error # "" THEN o.error
                             ELSE IF o.message # "" THEN o.message
                             ELSE "Failed to render component"]

\* handleRender from its await on, the call settled as o: the try, catch and
\* finally blocks, whose state updates are committed together.
ResumeRender(app, o) ==
  IF o.fulfilled
  THEN IF o.success
       THEN [app EXCEPT !.renderedHTML = o.html, !.loading = FALSE]
       ELSE [app EXCEPT !.error = IF o.error # "" THEN o.error ELSE "Unknown error occurred",
                        !.loading = FALSE]
  ELSE [app EXCEPT !.error = IF o.hasResponse /\ o.error # "" THEN o.error
                             ELSE IF o.message # "" THEN o.message
                             ELSE "Failed to render component",
                   !.loading = FALSE]

\* The preview panels whose conditions hold.
PanelsShown(app) ==
  {p \in {"error", "loading", "result", "placeholder"} :
     CASE p = "error" -> app.error # ""
       [] p = "loading" -> app.loading
       [] p = "result" -> ~app.loading /\ app.error = "" /\ app.renderedHTML # ""
       [] OTHER -> ~app.loading /\ app.error = "" /\ app.renderedHTML = ""}

\* The pending requests without the i-th.
Without(s, i) == SubSeq(s, 1, i - 1) \o SubSeq(s, i + 1, Len(s))

SetApp(app) ==
  /\ codeText' = app.code
  /\ renderedHTML' = app.renderedHTML
  /\ loading' = app.loading
  /\ error' = app.error

ClientInit ==
  /\ phase = "listening"
  /\ exitCode = << >>
  /\ artifact = ArtifactCjs
  /\ nodeEnv = "production"
  /\ predefinedComponents = LoadRegistry(ArtifactCjs)
  /\ cssPrimary = File("a{}")
  /\ cssAlt = NoFile
  /\ last = Handled("none", NoBody, NoOutcome)
  /\ cssSeen = NoRead
  /\ memo = NoMemo
  /\ arrived = [r \in 1..MaxInFlight |-> NoBody]
  /\ pos = [r \in 1..MaxInFlight |-> 0]
  /\ running = 0
  /\ events = << >>
  /\ ClientAtMount

\* The user edits the text: onChange of the textarea.
SetCode(text) ==
  /\ codeText' = text
  /\ UNCHANGED <<renderedHTML, loading, error, availableComponents, pending, cleared,
                 vars, turnVars>>

\* The user clicks Render Component, which a disabled button does not allow.
ClickRender ==
  /\ ~RenderDisabled(App)
  /\ SetApp(HandleRender(App).app)
  /\ pending' = pending \o HandleRender(App).sent
  /\ cleared' = FALSE
  /\ UNCHANGED <<availableComponents, vars, turnVars>>

\* The i-th pending request is a render request and settles as o.
RenderSettles(i, o) ==
  /\ pending[i].url = "/render"
  /\ SetApp(ResumeRender(App, o))
  /\ pending' = Without(pending, i)
  /\ UNCHANGED <<availableComponents, cleared, vars, turnVars>>

\* The request of the mount effect settles as o.
ComponentsSettle(i, o) ==
  /\ pending[i].url = "/components"
  /\ availableComponents' =
       IF o.fulfilled /\ o.success THEN o.components ELSE availableComponents
  /\ pending' = Without(pending, i)
  /\ UNCHANGED <<codeText, renderedHTML, loading, error, cleared, vars, turnVars>>

\* The user clicks Clear.
HandleClearCode ==
  /\ codeText' = ""
  /\ renderedHTML' = ""
  /\ error' = ""
  /\ cleared' = TRUE
  /\ UNCHANGED <<loading, availableComponents, pending, vars, turnVars>>

\* The user clicks Load Example.
HandleLoadExample ==
  /\ codeText' = exampleCode
  /\ error' = ""
  /\ UNCHANGED <<renderedHTML, loading, availableComponents, pending, cleared,
                 vars, turnVars>>

ClientNext ==
  \/ \E text \in CodeTexts : SetCode(text)
  \/ ClickRender
  \/ \E i \in 1..Len(pending) : \E o \in RenderOutcomes : RenderSettles(i, o)
  \/ \E i \in 1..Len(pending) : \E o \in ComponentsOutcomes : ComponentsSettle(i, o)
  \/ HandleClearCode
  \/ HandleLoadExample

ClientSpec == ClientInit /\ [][ClientNext]_<<vars, turnVars, clientVars>>

(* ----------------------------- properties ------------------------------ *)

\* The request handled last was a POST /render.
IsRender == last.kind = "render"

\* The stages the last handler call entered.
StagesRun == {last.out.trace[i] : i \in 1..Len(last.out.trace)}

\* The last handler call sent exactly one response and nothing escaped it.
RespondedOnce == Len(last.out.sent) = 1 /\ ~last.out.escaped

\* The source text of the last request declares MyComponent / throws itself.
DeclaresMyComponent ==
  \E i \in 1..Len(Lex(last.body.code.v)) :
    /\ Lex(last.body.code.v)[i].op \in {"declare", "close", "bindreq"}
    /\ Lex(last.body.code.v)[i].key = "MyComponent"

ThrowsItself ==
  \E i \in 1..Len(Lex(last.body.code.v)) : Lex(last.body.code.v)[i].op = "throw"

\* The last request carried a string the compiler accepts.
SubmittedValidSource ==
  /\ IsRender
  /\ last.body.present
  /\ last.body.code.t = "string"
  /\ last.body.code.v # ""
  /\ ~Transform(UserSource(last.body.code.v)).threw

\* C1: a POST /render whose code is empty or only whitespace is answered
\* success:false and the transformer is not invoked for it.
C1_BlankCodeNeverTransformed ==
  (IsRender /\ last.body.present /\ IsBlankText(last.body.code))
    => /\ RespondedOnce
       /\ last.out.sent[1].body.success = FALSE
       /\ "transform" \notin StagesRun

\* C2: a POST /render without a body, without code, or with a code that is
\* not a string is answered 400 {success:false, error:'No code provided'} and
\* none of transform, evaluate, render, assemble runs.
C2_NoCodeRejected ==
  (IsRender /\ (~last.body.present \/ TypeOf(last.body.code) # "string"))
    => /\ last.out.sent =
            <<[status |-> 400,
               body |-> [success |-> FALSE, error |-> Str("No code provided")]]>>
       /\ ~last.out.escaped
       /\ StagesRun \cap {"transform", "evaluate", "validateFactory", "render", "assemble"} = {}

C2_Witness ==
  /\ IsRender
  /\ last.body.present
  /\ last.body.code = Num("42")
  /\ last.out.trace = <<"validate", "respond">>

\* C3: every POST /render ends with exactly one response and no exception
\* escapes the handler, whichever stage throws.
C3_ExactlyOneResponse == IsRender => RespondedOnce

\* The place of a stage in the pipeline.
Rank(stage) ==
  CASE stage = "validate" -> 1
    [] stage = "transform" -> 2
    [] stage = "evaluate" -> 3
    [] stage = "validateFactory" -> 4
    [] stage = "render" -> 5
    [] stage = "assemble" -> 6
    [] stage = "catch" -> 7
    [] OTHER -> 8

\* Stages run at most once, in pipeline order, each only after all earlier
\* ones; nothing but the catch block's response follows a failure.
StagesInOrder ==
  /\ \A i, j \in 1..Len(last.out.trace) :
       i < j => Rank(last.out.trace[i]) < Rank(last.out.trace[j])
  /\ \A i \in 1..Len(last.out.trace) :
       Rank(last.out.trace[i]) <= 6 => Rank(last.out.trace[i]) = i
  /\ "assemble" \in StagesRun => "catch" \notin StagesRun

\* C4: within one request the stages run at most once each and in
\* pipeline order, a stage only after every earlier one succeeded; the first
\* failing stage leads directly to the failure response; the success
\* response is sent only after transform, evaluate, render and assemble.
C4_StagesSequential ==
  IsRender =>
    /\ StagesInOrder
    /\ "catch" \in StagesRun =>
         (RespondedOnce /\ last.out.sent[1].body.success = FALSE)
    /\ (RespondedOnce /\ last.out.sent[1].body.success) =>
         {"transform", "evaluate", "render", "assemble"} \subseteq StagesRun

\* C5: a submission the compiler rejects is answered success:false with
\* the compiler's own message, and the evaluator is not run.
C5_CompilerMessageReported ==
  (/\ IsRender
   /\ last.body.present
   /\ last.body.code.t = "string"
   /\ Transform(UserSource(last.body.code.v)).threw)
    => /\ RespondedOnce
       /\ last.out.sent[1].status = 400
       /\ last.out.sent[1].body.success = FALSE
       /\ last.out.sent[1].body.error =
            MessageOf(Transform(UserSource(last.body.code.v)).err)
       /\ "evaluate" \notin StagesRun

C5_Witness ==
  /\ IsRender
  /\ last.body.code = Str("function MyComponent(){return <p>ok</p>")
  /\ RespondedOnce
  /\ last.out.sent[1].body.error = Str("user-code.jsx: Unterminated JSX contents")

\* C6 as stated: a valid submission that does not define MyComponent is
\* answered success:false with the NoComponentError message.
C6_MissingComponentIsNoComponentError ==
  (SubmittedValidSource /\ ~DeclaresMyComponent)
    => /\ RespondedOnce
       /\ last.out.sent[1].body.success = FALSE
       /\ last.out.sent[1].body.error = MessageOf(NoComponentError)

\* C6 amended: for a valid submission that does not define MyComponent the
\* evaluate stage throws, so factory validation and render never run and no
\* success response is sent; when the submitted code throws nothing itself,
\* the value thrown is the trailer's ReferenceError and the response is 400,
\* success:false, error 'MyComponent is not defined'.
C6_MissingComponentIsReferenceError ==
  (SubmittedValidSource /\ ~DeclaresMyComponent)
    => /\ "evaluate" \in StagesRun
       /\ "catch" \in StagesRun
       /\ StagesRun \cap {"validateFactory", "render", "assemble"} = {}
       /\ \A i \in 1..Len(last.out.sent) : last.out.sent[i].body.success = FALSE
       /\ ~ThrowsItself =>
            /\ last.out.caught = ReferenceError
            /\ RespondedOnce
            /\ last.out.sent[1].status = 400
            /\ last.out.sent[1].body.success = FALSE
            /\ last.out.sent[1].body.error = Str("MyComponent is not defined")

C6_Witness ==
  /\ SubmittedValidSource
  /\ last.body.code = Str("function Other(){return <p>ok</p>}")
  /\ RespondedOnce
  /\ last.out.sent[1].body.error = Str("MyComponent is not defined")

\* C7: after an evaluation that did not throw, the render stage is
\* entered exactly when the export slot holds a function or a non-null
\* object; for any other value the request fails with the NoComponentError
\* message and the renderer is not invoked.
C7_FactoryValidation ==
  (IsRender /\ "validateFactory" \in StagesRun)
    => /\ "render" \in StagesRun <=>
            (last.out.exports.t = "function" \/ last.out.exports.t = "object")
       /\ "render" \notin StagesRun =>
            /\ RespondedOnce
            /\ last.out.sent[1].body.success = FALSE
            /\ last.out.sent[1].body.error =
                 Str("No valid component factory returned from user code")

C7_Witness ==
  /\ IsRender
  /\ last.out.exports = Null
  /\ "validateFactory" \in StagesRun
  /\ "render" \notin StagesRun

\* The stylesheet text a document inlines.
StyleOf(doc) == doc[Len(DocumentHead) + 2]

\* C8: the same code and props submitted at two points of one process's
\* life give the same html, whatever requests were handled in between
\* (stated here for two responses that inline the same stylesheet text, so
\* that only what earlier requests did can make them differ).
C8_SameSubmissionSameHtml ==
  (/\ IsRender
   /\ memo.set
   /\ last.body = memo.body
   /\ RespondedOnce
   /\ last.out.sent[1].body.success
   /\ StyleOf(last.out.sent[1].body.html) = StyleOf(memo.html))
    => last.out.sent[1].body.html = memo.html

\* C9: while the server runs, the registry is what the loader produced at
\* startup: same keys in the same order, same value for every key.
C9_RegistryUnchanged ==
  phase = "listening" => predefinedComponents = LoadRegistry(artifact)

\* A failure response built by the catch block was sent.
CaughtAndResponded ==
  IsRender /\ RespondedOnce /\ last.out.caught # NoThrow

\* C10 as stated: a failure response has no stack in production mode and
\* carries the caught error's stack in every other mode (stated here for
\* caught Error instances, which have a stack).
C10_StackOutsideProduction ==
  (CaughtAndResponded /\ last.out.caught.k = "error")
    => IF nodeEnv = "production"
       THEN "stack" \notin DOMAIN last.out.sent[1].body
       ELSE /\ "stack" \in DOMAIN last.out.sent[1].body
            /\ last.out.sent[1].body.stack = StackOf(last.out.caught)

\* C10 amended: a failure response carries a stack field only when
\* NODE_ENV is 'development' and the caught value has a stack (it is an
\* Error); the field is then that stack.  In every other mode, production
\* included, and for the validation failure, there is no stack field.
C10_StackOnlyInDevelopment ==
  (IsRender /\ RespondedOnce /\ last.out.sent[1].body.success = FALSE)
    => /\ "stack" \in DOMAIN last.out.sent[1].body <=>
            (nodeEnv = "development" /\ last.out.caught.k = "error")
       /\ "stack" \in DOMAIN last.out.sent[1].body =>
            last.out.sent[1].body.stack = StackOf(last.out.caught)

C10_Witness ==
  /\ CaughtAndResponded
  /\ nodeEnv = "development"
  /\ last.out.caught = ReferenceError
  /\ last.out.sent[1].body.stack = Str("MyComponent is not defined")

\* C11: every failure raised by the transform, evaluate, factory
\* validation or render stage is answered 400, success:false, with an error
\* that is the message of the value that stage raised, or the value's string
\* form when it has no message.
C11_FailureCarriesOriginalMessage ==
  (IsRender /\ last.out.caught # NoThrow)
    => /\ RespondedOnce
       /\ last.out.sent[1].status = 400
       /\ last.out.sent[1].body.success = FALSE
       /\ last.out.sent[1].body.error =
            IF Falsy(MessageOf(last.out.caught))
            THEN StringOf(last.out.caught)
            ELSE MessageOf(last.out.caught)

\* The two shapes of a POST /render response.
IsSuccessShape(r) ==
  /\ r.status = 200
  /\ r.body.success = TRUE
  /\ DOMAIN r.body = {"success", "html", "message"}
  /\ r.body.message.t = "string"

IsFailureShape(r) ==
  /\ r.status = 400
  /\ r.body.success = FALSE
  /\ {"success", "error"} \subseteq DOMAIN r.body
  /\ DOMAIN r.body \subseteq {"success", "error", "stack"}
  /\ r.body.error.t = "string"

\* C12: every response to POST /render is either 200 with success:true,
\* an html document and a message and no error, or 400 with success:false and
\* an error string and no html.
C12_TwoResponseShapes ==
  IsRender =>
    \A i \in 1..Len(last.out.sent) :
      IsSuccessShape(last.out.sent[i]) \/ IsFailureShape(last.out.sent[i])

\* C13: when the registry load fails at startup the process exits with a
\* non-zero code before it listens, so it never handles a request.
C13_LoadFailureIsFatal ==
  ~artifact.loads =>
    /\ phase # "listening"
    /\ last.kind = "none"
    /\ phase = "exited" => (Len(exitCode) = 1 /\ exitCode[1] # 0)

C13_Witness == ~artifact.loads /\ phase = "exited" /\ exitCode = <<1>>

\* The transform, evaluate and render stages of the last request succeeded.
RenderSucceeded == IsRender /\ "render" \in StagesRun /\ "catch" \notin StagesRun

\* The document of the last response.
LastHtml == last.out.sent[1].body.html

\* C14: a stylesheet that cannot be read never fails a request: the text
\* inlined is the primary file's when it is readable, else the alternative
\* file's when that is readable, else empty, and in each case a request whose
\* transform, evaluate and render succeeded gets the success response.
C14_StylesheetFailureTolerated ==
  RenderSucceeded
    => /\ RespondedOnce
       /\ last.out.sent[1].status = 200
       /\ last.out.sent[1].body.success = TRUE
       /\ cssSeen.primary.readable => StyleOf(LastHtml) = cssSeen.primary.text
       /\ (~cssSeen.primary.readable /\ cssSeen.alt.readable) =>
            StyleOf(LastHtml) = cssSeen.alt.text
       /\ (~cssSeen.primary.readable /\ ~cssSeen.alt.readable) => StyleOf(LastHtml) = ""

C14_Witness ==
  /\ RenderSucceeded
  /\ RespondedOnce
  /\ cssPrimary = NoFile
  /\ cssSeen = [primary |-> NoFile, alt |-> File("alt{}")]
  /\ StyleOf(LastHtml) = "alt{}"

\* The fragment the renderer returned for the last request.
LastFragment == Render(last.out.exports, PropsOf(last.body), last.out.reg).html

\* C15: a request that passes validation and whose transform, evaluate and
\* render succeed is answered success:true with a document that is, in order,
\* the doctype, the opening html tag, a head with charset, viewport, title and
\* a style block holding exactly the stylesheet text, a body whose element
\* with id app holds exactly the renderer's fragment, and the closing tag.
C15_DocumentStructure ==
  RenderSucceeded
    => /\ RespondedOnce
       /\ last.out.sent[1].body.success = TRUE
       /\ LastHtml =
            <<"<!DOCTYPE html>", "<html lang=\"en\">", "<head>",
              "<meta charset=\"UTF-8\">",
              "<meta name=\"viewport\" content=\"width=device-width, initial-scale=1.0\">",
              "<title>React Component</title>", "<style>">>
            \o <<IF cssSeen.primary.readable THEN cssSeen.primary.text
                 ELSE IF cssSeen.alt.readable THEN cssSeen.alt.text ELSE "">>
            \o <<"</style>", "</head>", "<body>", "<div id=\"app\">">>
            \o LastFragment
            \o <<"</div>", "</body>", "</html>">>

C15_Witness ==
  /\ RenderSucceeded
  /\ RespondedOnce
  /\ last.body.props = Obj("title:Hi")
  /\ LastFragment = <<"<h1>", "Hi", "</h1>">>
  /\ StyleOf(LastHtml) = "a{}"

\* The body of the last response.
LastBody == last.out.sent[1].body

\* C16: GET /components answers success:true with count the number of
\* registry keys and components one {name} entry per key, in the registry's
\* key order; every name listed is a key of the object the resolver returns
\* for the reserved name at that point.
C16_ComponentsListsRegistry ==
  last.kind = "components"
    => /\ RespondedOnce
       /\ LastBody.success = TRUE
       /\ LastBody.count = Len(predefinedComponents)
       /\ Len(LastBody.components) = Len(predefinedComponents)
       /\ \A i \in 1..Len(predefinedComponents) :
            LastBody.components[i] = [name |-> predefinedComponents[i].name]
       /\ \A i \in 1..Len(LastBody.components) :
            HasKey(Resolve(predefinedComponents), LastBody.components[i].name)

\* A listing taken after a request deleted a registry key.
C16_Witness ==
  /\ last.kind = "components"
  /\ predefinedComponents # LoadRegistry(artifact)
  /\ LastBody.count = 1
  /\ LastBody.components = <<[name |-> "Card"]>>

\* C17: every successful response of one running process inlines the same
\* stylesheet text, the one present at startup, whatever happens to the
\* stylesheet files between requests.
C17_OneStylesheetPerProcess ==
  (IsRender /\ memo.set /\ RespondedOnce /\ LastBody.success)
    => StyleOf(LastHtml) = StyleOf(memo.html)

\* C18: the pipelines of two requests never interleave: between two
\* stages of one request no stage of another request runs, in whatever order
\* the runtime starts the requests.
C18_NoInterleaving ==
  \A i, j, k \in 1..Len(events) :
    (i < j /\ j < k /\ events[i].req = events[k].req) => events[j].req = events[i].req

\* Both requests ran to their responses, the second to arrive first.
C18_Witness ==
  /\ \A r \in 1..MaxInFlight : pos[r] = Len(StageTrace(r))
  /\ events[1].req = 2
  /\ events[Len(events)].req = 1
  /\ events[Len(events)].stage = "respond"
  /\ \E i \in 1..Len(events) : events[i].req = 2 /\ events[i].stage = "assemble"

\* The components that submitted sources declare as MyComponent.
CandidateComponents ==
  {Fn("static"), Fn("echoTitle"), Fn("useButton"), Fn("throws"), Fn("shows:Hi"),
   Fn("shows:"), Obj("memo")}

\* The last request only reads the registry: it renders the Button entry.
ReadsButton ==
  /\ IsRender
  /\ last.body.present
  /\ last.body.code =
       Str("import {Button} from '@react-renderer/components'; function MyComponent(){return <Button/>}")
  /\ "render" \in StagesRun

\* C19: nothing of one request is observed by another: the component that the
\* rendering of a request gets from the registry is never the candidate
\* component of a request.
C19_NothingObservedAcrossRequests ==
  ReadsButton => Get(last.out.reg, "Button") \notin CandidateComponents

\* The last request submitted one of the two sources that show props.title
\* in a heading: the one reading the constructor's argument, the one reading
\* the context's props binding.
EchoesTitle ==
  /\ IsRender
  /\ last.body.present
  /\ last.body.code \in
       {Str("function MyComponent(props){return <h1>{props.title}</h1>}"),
        Str("const t = props.title; function MyComponent(){return <h1>{t}</h1>}")}

\* The mapping a request supplies, the empty one when it supplies none.
SuppliedProps == IF last.body.props = Undef THEN Obj("{}") ELSE last.body.props

\* C20: the props of the request are the props of the context and of the
\* constructor: a source that shows props.title in a heading, read from either
\* of them, is answered with a document whose heading holds the title of the
\* request's props, and an empty heading when the request has no props.
C20_PropsUsedThroughout ==
  EchoesTitle =>
    /\ RespondedOnce
    /\ LastBody.success
    /\ LastHtml =
         Assemble(StyleOf(LastHtml),
                  <<"<h1>">> \o TitleOf(SuppliedProps) \o <<"</h1>">>)

\* The title read from the context's props binding was rendered.
C20_Witness ==
  /\ EchoesTitle
  /\ last.body.code = Str("const t = props.title; function MyComponent(){return <h1>{t}</h1>}")
  /\ last.body.props = Obj("title:Hi")
  /\ RespondedOnce
  /\ LastFragment = <<"<h1>", "Hi", "</h1>">>

\* The last request bound MyComponent to a member of the named module.
Requires(name) ==
  /\ IsRender
  /\ last.body.present
  /\ last.body.code.t = "string"
  /\ Lex(last.body.code.v) # << >>
  /\ Lex(last.body.code.v)[1].op = "bindreq"
  /\ Lex(last.body.code.v)[1].from = name

\* C21: code that asks the resolver for the reserved name gets the registry,
\* the one GET /components lists; code that asks for another name gets what
\* the host's resolver gives for it, and when the host's resolver throws, the
\* request fails in the evaluate stage with the host's error.
C21_ResolverAnswers ==
  /\ Requires(RegistryName) =>
       last.out.exports = Get(predefinedComponents, "Button")
  /\ Requires("react") =>
       /\ last.out.exports = Get(HostRequire("react").mod, "Fragment")
       /\ RespondedOnce
       /\ last.out.sent[1].body.success
  /\ Requires("nope") =>
       /\ last.out.caught = HostRequire("nope").err
       /\ StagesRun \cap {"validateFactory", "render", "assemble"} = {}
       /\ RespondedOnce
       /\ last.out.sent[1].status = 400
       /\ last.out.sent[1].body.error = Str("Cannot find module 'nope'")

\* A request got a host module from the resolver and rendered its member.
C21_Witness ==
  /\ Requires("react")
  /\ last.out.exports = Fn("Fragment")
  /\ RespondedOnce
  /\ last.out.sent[1].body.success

\* The server has started and has served no request yet.
JustLoaded == phase = "listening" /\ last.kind = "none"

\* The keys a module object carries for the module system, not for a component.
Bookkeeping == {"__esModule", "default"}

\* The registry holds every key of the default export and every named export,
\* with the named export's value where both have the name.
MergesBothShapes ==
  /\ \A i \in 1..Len(artifact.dflt) : HasKey(predefinedComponents, artifact.dflt[i].name)
  /\ \A i \in 1..Len(artifact.named) :
       artifact.named[i].name \notin Bookkeeping =>
         Get(predefinedComponents, artifact.named[i].name) = artifact.named[i].value

\* C22: the registry the loader leaves is one flat mapping from names to
\* constructors: it merges the default export's keys and the named exports,
\* it has no __esModule key, and none of its entries is the default-export
\* container itself.
C22_RegistryIsFlat ==
  JustLoaded =>
    /\ MergesBothShapes
    /\ ~HasKey(predefinedComponents, "__esModule")
    /\ \A i \in 1..Len(predefinedComponents) :
         predefinedComponents[i].value # DefaultContainer

\* The render requests in flight.
RendersInFlight == {i \in 1..Len(pending) : pending[i].url = "/render"}

\* C23: the client shows exactly one of the four preview panels: loading and
\* a non-empty error never hold together, and loading holds exactly while a
\* render request is awaited, so that every attempt, however its request
\* settles, leaves loading false.
C23_OnePanelShown ==
  /\ Cardinality(PanelsShown(App)) = 1
  /\ ~(loading /\ error # "")
  /\ loading <=> RendersInFlight # {}

\* A render attempt that failed at the transport level has ended.
C23_Witness ==
  /\ error = "Network Error"
  /\ ~loading
  /\ RendersInFlight = {}
  /\ PanelsShown(App) = {"error"}

\* C24: at most one render request is in flight; the render action is
\* unavailable while loading is true or the code is blank; handleRender on
\* blank code sends nothing and changes nothing but the error message.
C24_OneRenderInFlight ==
  /\ Cardinality(RendersInFlight) <= 1
  /\ (loading \/ Trim(codeText) = "") => ~ENABLED ClickRender
  /\ Trim(codeText) = "" =>
       /\ HandleRender(App).sent = << >>
       /\ HandleRender(App).app =
            [App EXCEPT !.error = "Please enter some React component code"]

\* A render request is in flight and the editor has been blanked meanwhile.
C24_Witness ==
  /\ Cardinality(RendersInFlight) = 1
  /\ loading
  /\ codeText = "   "

\* C25: from the Clear action until the user starts a new render, the
\* rendered output and the error message stay empty.
C25_ClearedStaysEmpty ==
  cleared => (renderedHTML = "" /\ error = "")

====
